---- MODULE Spec2Model ----
(***************************************************************************)
(* Model of snmalloc's Superslab header (src/mem/superslab.h): the usage   *)
(* counter `used`, the relative-offset free list of regular slabs threaded *)
(* through meta[].next from `head`, the short slab (slot 0), init and its  *)
(* debug consistency check, and the alloc/dealloc operations.              *)
(***************************************************************************)
EXTENDS Integers, Sequences, FiniteSets, TLC

(* ---------------------------------------------------------------------- *)
(* Bounds of the model                                                     *)
(* ---------------------------------------------------------------------- *)

\* log2 of the number of slab slots of a superslab (SLAB_COUNT is a power of
\* two fixed at build time; the real builds use 64 or 256 slots).
SlabCountBits == 2

\* log2 of the size of one slab in address units.
SLAB_BITS == 3

\* Size classes passed to the allocation calls are 0..MaxSizeClass.
MaxSizeClass == 1

\* Owner identities passed to init are 1..MaxOwner (0 is the null pointer).
MaxOwner == 1

\* Number of operations in one behaviour.
MaxOps == 6

(* ---------------------------------------------------------------------- *)
(* Program constants and fixed-width arithmetic                            *)
(* ---------------------------------------------------------------------- *)

SLAB_COUNT == 2 ^ SlabCountBits

SLAB_SIZE == 2 ^ SLAB_BITS

Slots == 0 .. (SLAB_COUNT - 1)

RegularSlots == 1 .. (SLAB_COUNT - 1)

SizeClasses == 0 .. MaxSizeClass

Owners == 1 .. MaxOwner

\* x truncated to an unsigned integer of w bits.
Trunc(x, w) == x % (2 ^ w)

U8(x) == Trunc(x, 8)

U16(x) == Trunc(x, 16)

\* The width of size_t.
SIZE_BITS == 64

RECURSIVE Pow2Mod(_, _)
\* 2^k mod p, computed without forming 2^k.
Pow2Mod(k, p) ==
  IF k = 0 THEN 1 % p
  ELSE IF k % 2 = 0
       THEN LET r == Pow2Mod(k \div 2, p) IN (r * r) % p
       ELSE (2 * Pow2Mod(k - 1, p)) % p

RECURSIVE BitAnd(_, _)
\* a & b on naturals.
BitAnd(a, b) ==
  IF a = 0 \/ b = 0 THEN 0
  ELSE (IF a % 2 = 1 /\ b % 2 = 1 THEN 1 ELSE 0) + 2 * BitAnd(a \div 2, b \div 2)

ShiftL(a, k) == a * (2 ^ k)

ShiftR(a, k) == a \div (2 ^ k)

\* Assignment to a Mod<SLAB_COUNT, uint8_t>: SLAB_COUNT is a power of two, so
\* the value is masked with SLAB_COUNT - 1.
ModSlab(x) == BitAnd(U8(x), SLAB_COUNT - 1)

(* ---------------------------------------------------------------------- *)
(* Per-slot metadata record (Metaslab): the fields the header uses         *)
(* ---------------------------------------------------------------------- *)

\* A default-constructed record: unused, size class 0, next offset 0.  This
\* is also what zero-filled memory holds.
MetaslabDefault == [next |-> 0, sizeclass |-> 0, full |-> FALSE]

is_unused(m) == ~m.full

set_full(m) == [m EXCEPT !.full = TRUE]

\* The record of slot i once every object of the slab has been returned to
\* it: it reports itself unused.
ReturnAllObjects(m, i) == [m EXCEPT ![i].full = FALSE]

(* ---------------------------------------------------------------------- *)
(* State                                                                   *)
(* ---------------------------------------------------------------------- *)

VARIABLES
  kind,         \* Allocslab::kind of the region: "Fresh", "Super" or "Other"
  allocator,    \* owner identity recorded in the header (0 = null)
  head,         \* Mod<SLAB_COUNT, uint8_t> head
  used,         \* uint16_t used
  meta,         \* ModArray<SLAB_COUNT, Metaslab> meta
  outstanding,  \* slots handed out by an alloc call and not yet returned
  bigHeader,    \* build: sizeof(Superslab) >= OS_PAGE_SIZE
  debug,        \* build: NDEBUG is not defined
  aborted,      \* the process has aborted in a debug check
  last,         \* the last call (operation, argument, result, pre-state)
                \* and whether it undoes the call before it
  walk,         \* init's last debug walk: steps taken and slot reached
  fresh,        \* alloc_slab calls made since an init of fresh memory, or -1
  ops,          \* number of calls made
  links         \* Superslab* next, prev: 0 is null, 1 another superslab

vars == <<kind, allocator, head, used, meta, outstanding, bigHeader, debug,
          aborted, last, walk, fresh, ops, links>>

(* ---------------------------------------------------------------------- *)
(* The free chain                                                          *)
(* ---------------------------------------------------------------------- *)

\* The slot after slot c in the chain.
NextSlot(c, m) == ModSlab(c + m[c].next + 1)

RECURSIVE WalkFrom(_, _, _)
\* The slot reached from c after n steps.
WalkFrom(c, m, n) == IF n = 0 THEN c ELSE WalkFrom(NextSlot(c, m), m, n - 1)

RECURSIVE ChainFrom(_, _, _)
\* The slots visited from c before slot 0 is reached, at most n of them.
ChainFrom(c, m, n) ==
  IF c = 0 \/ n = 0 THEN <<>> ELSE <<c>> \o ChainFrom(NextSlot(c, m), m, n - 1)

\* The free list as a sequence of slots, in traversal order.
FreeChain(h, m) == ChainFrom(h, m, SLAB_COUNT)

(* ---------------------------------------------------------------------- *)
(* Status queries                                                          *)
(* ---------------------------------------------------------------------- *)

is_empty(u) == u = 0

is_full(u) == u = ShiftL(SLAB_COUNT - 1, 1) + 1

\* Variant: the comparison is strict.
is_almost_full_strict(u) == u > ShiftL(SLAB_COUNT - 1, 1)

is_almost_full(u) == u >= ShiftL(SLAB_COUNT - 1, 1)

get_status(u) ==
  IF ~is_almost_full(u)
  THEN (IF ~is_empty(u) THEN "Available" ELSE "Empty")
  ELSE (IF ~is_full(u) THEN "OnlyShortSlabAvailable" ELSE "Full")

(* ---------------------------------------------------------------------- *)
(* Slab addresses (as offsets from the header) and slot indices            *)
(* ---------------------------------------------------------------------- *)

\* Variant: the slot index is not scaled to an address.
SlabAddress_noShift(h) == h

\* pointer_offset(self, h << SLAB_BITS), relative to self.
SlabAddress(h) == ShiftL(h, SLAB_BITS)

\* slab_to_index: the address difference shifted down, truncated to uint8_t.
slab_to_index(slab) == U8(ShiftR(slab, SLAB_BITS))

(* ---------------------------------------------------------------------- *)
(* History bookkeeping                                                     *)
(* ---------------------------------------------------------------------- *)

NoWalk == [ran |-> FALSE, count |-> 0, wrapped |-> FALSE, end |-> 0]

\* Is the call the second of a pair: a dealloc_slab of the slab that the
\* alloc_slab right before it returned, or an alloc_slab right after a
\* dealloc_slab?
Follows(op, arg) ==
  IF op = "dealloc_slab" /\ last.op = "alloc_slab" /\ arg = last.ret
  THEN "alloc_slab"
  ELSE IF op = "alloc_slab" /\ last.op = "dealloc_slab"
       THEN "dealloc_slab"
       ELSE "none"

Call(op, arg, ret) ==
  [op |-> op, arg |-> arg, ret |-> ret,
   preHead |-> head, preUsed |-> used, preChain |-> FreeChain(head, meta),
   preKind |-> kind, follows |-> Follows(op, arg)]

Running == ~aborted /\ ops < MaxOps

(* ---------------------------------------------------------------------- *)
(* Initial state: a fresh, zero-filled region, in any build                *)
(* ---------------------------------------------------------------------- *)

Init ==
  /\ kind = "Fresh"
  /\ allocator = 0
  /\ head = 0
  /\ used = 0
  /\ meta = [i \in Slots |-> MetaslabDefault]
  /\ outstanding = {}
  /\ bigHeader \in BOOLEAN
  /\ debug \in BOOLEAN
  /\ aborted = FALSE
  /\ last = [op |-> "none", arg |-> 0, ret |-> 0,
             preHead |-> 0, preUsed |-> 0, preChain |-> <<>>,
             preKind |-> "Fresh", follows |-> "none"]
  /\ walk = NoWalk
  /\ fresh = -1
  /\ ops = 0
  /\ links = [next |-> 0, prev |-> 0]

(* ---------------------------------------------------------------------- *)
(* The operations as functions of the header fields                        *)
(* ---------------------------------------------------------------------- *)

Header(h, u, m) == [head |-> h, used |-> u, meta |-> m]

\* Variant: head advances by the stored offset only.
alloc_slab_noPlusOne(h, u, m, sizeclass) ==
  LET n == m[h].next
      metah == [set_full(m[h]) EXCEPT !.sizeclass = U8(sizeclass)]
  IN [ret  |-> SlabAddress(h),
      head |-> ModSlab(h + n),
      used |-> U16(u + 2),
      meta |-> [m EXCEPT ![h] = metah]]

\* Variant: the slot is handed out but head stays on it.
alloc_slab_keepsHead(h, u, m, sizeclass) ==
  LET metah == [set_full(m[h]) EXCEPT !.sizeclass = U8(sizeclass)]
  IN [ret  |-> SlabAddress(h),
      head |-> h,
      used |-> U16(u + 2),
      meta |-> [m EXCEPT ![h] = metah]]

\* alloc_slab: pop the slot at head.
alloc_slab(h, u, m, sizeclass) ==
  LET n == m[h].next
      metah == [set_full(m[h]) EXCEPT !.sizeclass = U8(sizeclass)]
  IN [ret  |-> SlabAddress(h),
      head |-> ModSlab(h + n + 1),
      used |-> U16(u + 2),
      meta |-> [m EXCEPT ![h] = metah]]

\* Variant: the record at head is set up instead of the record of slot 0.
alloc_short_slab_wrongSlot(h, u, m, sizeclass) ==
  IF BitAnd(u, 1) = 1
  THEN alloc_slab(h, u, m, sizeclass)
  ELSE LET metaz == [set_full(m[h]) EXCEPT !.sizeclass = U8(sizeclass)]
       IN [ret  |-> 0,
           head |-> h,
           used |-> U16(u + 1),
           meta |-> [m EXCEPT ![h] = metaz]]

\* Variant: no fall back to alloc_slab when the short slab is taken.
alloc_short_slab_noFallback(h, u, m, sizeclass) ==
  LET metaz == [set_full(m[0]) EXCEPT !.sizeclass = U8(sizeclass)]
  IN [ret  |-> 0,
      head |-> h,
      used |-> U16(u + 1),
      meta |-> [m EXCEPT ![0] = metaz]]

\* alloc_short_slab: slot 0, or a regular slot when slot 0 is taken.
alloc_short_slab(h, u, m, sizeclass) ==
  IF BitAnd(u, 1) = 1
  THEN alloc_slab(h, u, m, sizeclass)
  ELSE LET metaz == [set_full(m[0]) EXCEPT !.sizeclass = U8(sizeclass)]
       IN [ret  |-> 0,
           head |-> h,
           used |-> U16(u + 1),
           meta |-> [m EXCEPT ![0] = metaz]]

\* Variant: the counter is decremented by one.
dealloc_slab_dec1(h, u, m, slab) ==
  LET index == U8(slab_to_index(slab))
      n == U8(h - index - 1)
      was_almost_full == is_almost_full(u)
      u2 == U16(u - 1)
  IN [ret  |-> IF was_almost_full \/ is_empty(u2)
               THEN "StatusChange" ELSE "NoStatusChange",
      head |-> ModSlab(index),
      used |-> u2,
      meta |-> [m EXCEPT ![index] = [@ EXCEPT !.sizeclass = 0,
                                               !.next = ModSlab(n)]]]

\* Variant: the stored offset is not reduced by one.
dealloc_slab_offByOne(h, u, m, slab) ==
  LET index == U8(slab_to_index(slab))
      n == U8(h - index)
      was_almost_full == is_almost_full(u)
      u2 == U16(u - 2)
  IN [ret  |-> IF was_almost_full \/ is_empty(u2)
               THEN "StatusChange" ELSE "NoStatusChange",
      head |-> ModSlab(index),
      used |-> u2,
      meta |-> [m EXCEPT ![index] = [@ EXCEPT !.sizeclass = 0,
                                               !.next = ModSlab(n)]]]

\* Variant: the slot is linked to the old head but head is not moved to it.
dealloc_slab_keepsHead(h, u, m, slab) ==
  LET index == U8(slab_to_index(slab))
      n == U8(h - index - 1)
      was_almost_full == is_almost_full(u)
      u2 == U16(u - 2)
  IN [ret  |-> IF was_almost_full \/ is_empty(u2)
               THEN "StatusChange" ELSE "NoStatusChange",
      head |-> h,
      used |-> u2,
      meta |-> [m EXCEPT ![index] = [@ EXCEPT !.sizeclass = 0,
                                               !.next = ModSlab(n)]]]

\* Variant: the stored size class of the freed slot is left as it is.
dealloc_slab_keepsClass(h, u, m, slab) ==
  LET index == U8(slab_to_index(slab))
      n == U8(h - index - 1)
      was_almost_full == is_almost_full(u)
      u2 == U16(u - 2)
  IN [ret  |-> IF was_almost_full \/ is_empty(u2)
               THEN "StatusChange" ELSE "NoStatusChange",
      head |-> ModSlab(index),
      used |-> u2,
      meta |-> [m EXCEPT ![index] = [@ EXCEPT !.next = ModSlab(n)]]]

\* Variant: the distance stops at 0 instead of wrapping around.
dealloc_slab_saturating(h, u, m, slab) ==
  LET index == U8(slab_to_index(slab))
      n == IF h - index - 1 < 0 THEN 0 ELSE h - index - 1
      was_almost_full == is_almost_full(u)
      u2 == U16(u - 2)
  IN [ret  |-> IF was_almost_full \/ is_empty(u2)
               THEN "StatusChange" ELSE "NoStatusChange",
      head |-> ModSlab(index),
      used |-> u2,
      meta |-> [m EXCEPT ![index] = [@ EXCEPT !.sizeclass = 0,
                                               !.next = ModSlab(n)]]]

\* Variant: head is updated before the offset is computed from it.
dealloc_slab_headFirst(h, u, m, slab) ==
  LET index == U8(slab_to_index(slab))
      n == U8(ModSlab(index) - index - 1)
      was_almost_full == is_almost_full(u)
      u2 == U16(u - 2)
  IN [ret  |-> IF was_almost_full \/ is_empty(u2)
               THEN "StatusChange" ELSE "NoStatusChange",
      head |-> ModSlab(index),
      used |-> u2,
      meta |-> [m EXCEPT ![index] = [@ EXCEPT !.sizeclass = 0,
                                               !.next = ModSlab(n)]]]

\* Variant: is_almost_full is read after the decrement.
dealloc_slab_lateCheck(h, u, m, slab) ==
  LET index == U8(slab_to_index(slab))
      n == U8(h - index - 1)
      u2 == U16(u - 2)
      was_almost_full == is_almost_full(u2)
  IN [ret  |-> IF was_almost_full \/ is_empty(u2)
               THEN "StatusChange" ELSE "NoStatusChange",
      head |-> ModSlab(index),
      used |-> u2,
      meta |-> [m EXCEPT ![index] = [@ EXCEPT !.sizeclass = 0,
                                               !.next = ModSlab(n)]]]

\* dealloc_slab: push the slot of `slab` at the front of the free list.
dealloc_slab(h, u, m, slab) ==
  LET index == U8(slab_to_index(slab))
      n == U8(h - index - 1)
      was_almost_full == is_almost_full(u)
      u2 == U16(u - 2)
  IN [ret  |-> IF was_almost_full \/ is_empty(u2)
               THEN "StatusChange" ELSE "NoStatusChange",
      head |-> ModSlab(index),
      used |-> u2,
      meta |-> [m EXCEPT ![index] = [@ EXCEPT !.sizeclass = 0,
                                               !.next = ModSlab(n)]]]

\* dealloc_short_slab: only the counter changes.
dealloc_short_slab(h, u, m) ==
  LET was_full == is_full(u)
      u2 == U16(u - 1)
  IN [ret  |-> IF was_full \/ is_empty(u2)
               THEN "StatusChange" ELSE "NoStatusChange",
      head |-> h,
      used |-> u2,
      meta |-> m]

\* Variant: the size of the header is not looked at.
InitResets_kindOnly(k) == k # "Super"

\* init, lines 114-131: does the header have to be set up again?
InitResets(k) == k # "Super" \/ bigHeader

\* Variant: the reset leaves head at 0.
init_header_headZero(k, h, u, m) ==
  IF InitResets(k)
  THEN IF k # "Fresh"
       THEN Header(0, 0, [i \in Slots |-> MetaslabDefault])
       ELSE Header(0, u, m)
  ELSE Header(h, u, m)

init_header(k, h, u, m) ==
  IF InitResets(k)
  THEN IF k # "Fresh"
       THEN Header(ModSlab(1), 0, [i \in Slots |-> MetaslabDefault])
       ELSE Header(ModSlab(1), u, m)
  ELSE Header(h, u, m)

\* init, line 135: the number of steps of the debug walk.  The bound is
\* computed in size_t: a negative difference d wraps to 2^SIZE_BITS + d,
\* which is recorded as d with wrapped = TRUE.
DebugWalkSteps(u) ==
  LET d == SLAB_COUNT - u - 1
  IN [count |-> d, wrapped |-> d < 0]

\* The length of the cycle the chain enters from slot c.
CycleLength(c, m) ==
  LET x == WalkFrom(c, m, SLAB_COUNT)
  IN CHOOSE k \in 1 .. SLAB_COUNT :
       /\ WalkFrom(x, m, k) = x
       /\ \A j \in 1 .. (k - 1) : WalkFrom(x, m, j) # x

\* init, lines 134-138: the slot the debug walk ends on.  After SLAB_COUNT
\* steps the walk is on a cycle, so a wrapped step count is reduced modulo
\* the cycle's length.
DebugWalkEnd(h, u, m) ==
  LET steps == DebugWalkSteps(u)
      p == CycleLength(h, m)
  IN IF ~steps.wrapped
     THEN WalkFrom(h, m, steps.count)
     ELSE WalkFrom(h, m, SLAB_COUNT
                    + ((Pow2Mod(SIZE_BITS, p) + steps.count - SLAB_COUNT) % p))

\* init, lines 139-145: does the debug check abort?
DebugCheckAborts(h, u, m) ==
  \/ DebugWalkEnd(h, u, m) # 0
  \/ \E i \in Slots : ~is_unused(m[i])

(* ---------------------------------------------------------------------- *)
(* Actions                                                                 *)
(* ---------------------------------------------------------------------- *)

\* Variant: init clears the list links.
init_links_cleared(l) == [next |-> 0, prev |-> 0]

\* init assigns neither next nor prev.
init_links(l) == l

\* The body of init(alloc).
DoInit(alloc) ==
  LET r == init_header(kind, head, used, meta)
  IN /\ allocator' = alloc
     /\ kind' = IF InitResets(kind) THEN "Super" ELSE kind
     /\ head' = r.head
     /\ used' = r.used
     /\ meta' = r.meta
     /\ outstanding' = IF InitResets(kind) THEN {} ELSE outstanding
     /\ walk' = IF debug
                THEN [ran     |-> TRUE,
                      count   |-> DebugWalkSteps(r.used).count,
                      wrapped |-> DebugWalkSteps(r.used).wrapped,
                      end     |-> DebugWalkEnd(r.head, r.used, r.meta)]
                ELSE NoWalk
     /\ aborted' = (debug /\ DebugCheckAborts(r.head, r.used, r.meta))
     /\ last' = Call("init", alloc, 0)
     /\ fresh' = IF kind = "Fresh" THEN 0 ELSE -1
     /\ ops' = ops + 1
     /\ links' = init_links(links)
     /\ UNCHANGED <<bigHeader, debug>>

\* init(alloc) on a region taken from the reservoir: fresh memory, memory
\* that held something else, or a superslab released when it was empty.
InitCall(alloc) ==
  /\ Running
  /\ kind = "Super" => outstanding = {}
  /\ DoInit(alloc)

\* init(alloc) on a superslab that still has slabs handed out.
InitInUse(alloc) ==
  /\ Running
  /\ kind = "Super" /\ outstanding # {}
  /\ DoInit(alloc)

\* The effect of an alloc/dealloc call with result r.
Apply(op, arg, r) ==
  /\ head' = r.head
  /\ used' = r.used
  /\ meta' = r.meta
  /\ last' = Call(op, arg, r.ret)
  /\ ops' = ops + 1
  /\ walk' = NoWalk
  /\ UNCHANGED <<kind, allocator, bigHeader, debug, aborted, links>>

AllocSlab(sizeclass) ==
  /\ Running
  /\ kind = "Super"
  /\ ~is_almost_full(used)
  /\ LET r == alloc_slab(head, used, meta, sizeclass)
     IN /\ Apply("alloc_slab", sizeclass, r)
        /\ outstanding' = outstanding \cup {slab_to_index(r.ret)}
  /\ fresh' = IF fresh >= 0 THEN fresh + 1 ELSE -1

AllocShortSlab(sizeclass) ==
  /\ Running
  /\ kind = "Super"
  /\ ~is_full(used)
  /\ LET r == alloc_short_slab(head, used, meta, sizeclass)
     IN /\ Apply("alloc_short_slab", sizeclass, r)
        /\ outstanding' = outstanding \cup {slab_to_index(r.ret)}
  /\ fresh' = -1

\* dealloc_slab is called by the owner of the slab once every object of
\* the slab has been returned, when the slot's record reports itself unused
\* (asserted at line 250).
DeallocSlab(i) ==
  /\ Running
  /\ kind = "Super"
  /\ i \in outstanding
  /\ LET r == dealloc_slab(head, used, ReturnAllObjects(meta, i),
                           SlabAddress(i))
     IN Apply("dealloc_slab", SlabAddress(i), r)
  /\ outstanding' = outstanding \ {i}
  /\ fresh' = -1

\* dealloc_short_slab is called in the same way for slot 0 (line 263).
DeallocShortSlab ==
  /\ Running
  /\ kind = "Super"
  /\ 0 \in outstanding
  /\ LET r == dealloc_short_slab(head, used, ReturnAllObjects(meta, 0))
     IN Apply("dealloc_short_slab", 0, r)
  /\ outstanding' = outstanding \ {0}
  /\ fresh' = -1

\* get_status(), which also evaluates is_empty, is_full and is_almost_full.
GetStatus ==
  /\ Running
  /\ kind = "Super"
  /\ last' = Call("get_status", 0, get_status(used))
  /\ ops' = ops + 1
  /\ UNCHANGED <<kind, allocator, head, used, meta, outstanding, bigHeader,
                 debug, aborted, walk, fresh, links>>

\* The metadata record of a slab address.
get_meta(m, slab) == m[slab_to_index(slab)]

\* get_meta(slab) for a slab that is handed out; the call is recorded with
\* the index of the record it returns.
GetMeta(i) ==
  /\ Running
  /\ kind = "Super"
  /\ i \in outstanding
  /\ last' = Call("get_meta", SlabAddress(i), slab_to_index(SlabAddress(i)))
  /\ ops' = ops + 1
  /\ UNCHANGED <<kind, allocator, head, used, meta, outstanding, bigHeader,
                 debug, aborted, walk, fresh, links>>

\* The list positions the owning allocator gives a superslab: off its list,
\* or at the front of it before another superslab.
LinkStates == {[next |-> 0, prev |-> 0], [next |-> 1, prev |-> 0]}

\* The owning allocator's list code inserts the superslab in its list of
\* superslabs with space, or removes it.
ListMove ==
  /\ Running
  /\ kind = "Super"
  /\ \E l \in LinkStates \ {links} : links' = l
  /\ last' = Call("list_move", 0, 0)
  /\ ops' = ops + 1
  /\ UNCHANGED <<kind, allocator, head, used, meta, outstanding, bigHeader,
                 debug, aborted, walk, fresh>>

\* Header contents left behind by another use of the region.
GarbageHeaders ==
  { Header(SLAB_COUNT - 1, 3,
           [i \in Slots |-> [next |-> SLAB_COUNT - 1,
                             sizeclass |-> MaxSizeClass, full |-> TRUE]]),
    Header(0, 2 * SLAB_COUNT,
           [i \in Slots |-> [next |-> 1, sizeclass |-> 0, full |-> FALSE]]) }

\* The empty superslab is released and the region is used for something
\* else, which overwrites the header.
Recycle ==
  /\ Running
  /\ kind = "Super"
  /\ outstanding = {}
  /\ \E g \in GarbageHeaders :
       /\ head' = g.head
       /\ used' = g.used
       /\ meta' = g.meta
  /\ kind' = "Other"
  /\ last' = Call("recycle", 0, 0)
  /\ ops' = ops + 1
  /\ walk' = NoWalk
  /\ fresh' = -1
  /\ UNCHANGED <<allocator, outstanding, bigHeader, debug, aborted, links>>

Next ==
  \/ \E a \in Owners : InitCall(a)
  \/ \E c \in SizeClasses : AllocSlab(c)
  \/ \E c \in SizeClasses : AllocShortSlab(c)
  \/ \E i \in RegularSlots : DeallocSlab(i)
  \/ DeallocShortSlab
  \/ GetStatus
  \/ \E i \in Slots : GetMeta(i)
  \/ ListMove
  \/ Recycle

Spec == Init /\ [][Next]_vars

(* ---------------------------------------------------------------------- *)
(* is_short_sizeclass                                                      *)
(* ---------------------------------------------------------------------- *)

\* The size class tables: the largest object size of each class, in address
\* units up to SLAB_SIZE, not decreasing with the class.
SizeTables ==
  {t \in [SizeClasses -> 1 .. SLAB_SIZE] :
     \A a, b \in SizeClasses : a <= b => t[a] <= t[b]}

\* sizeof(Superslab) is below SLAB_SIZE (static_assert, line 94).
HeaderSizes == 1 .. (SLAB_SIZE - 1)

\* size_to_sizeclass_const rounds up: the smallest class whose objects are
\* at least `size` large, or the number of classes if there is none.
size_to_sizeclass_const(t, size) ==
  IF \E c \in SizeClasses : t[c] >= size
  THEN CHOOSE c \in SizeClasses :
         /\ t[c] >= size
         /\ \A d \in SizeClasses : t[d] >= size => c <= d
  ELSE MaxSizeClass + 1

\* Variant: the threshold class itself is let into the short slab.
is_short_sizeclass_inclusive(t, hdr, sizeclass) ==
  sizeclass <= size_to_sizeclass_const(t, SLAB_SIZE - hdr)

is_short_sizeclass(t, hdr, sizeclass) ==
  LET h == size_to_sizeclass_const(t, SLAB_SIZE - hdr)
  IN sizeclass < h

\* A build fixes the size class table and the header size; the class asked
\* about is the caller's.  Nothing of the superslab is touched.
InitShort ==
  /\ kind = "Fresh"
  /\ allocator = 0
  /\ head = 0
  /\ used = 0
  /\ meta = [i \in Slots |-> MetaslabDefault]
  /\ outstanding = {}
  /\ bigHeader = FALSE
  /\ debug = FALSE
  /\ aborted = FALSE
  /\ \E t \in SizeTables, hdr \in HeaderSizes, c \in SizeClasses :
       last = [op |-> "none", arg |-> c, ret |-> FALSE,
               table |-> t, hdr |-> hdr]
  /\ walk = NoWalk
  /\ fresh = -1
  /\ ops = 0
  /\ links = [next |-> 0, prev |-> 0]

\* is_short_sizeclass(sizeclass), answered once.
IsShortSizeclass ==
  /\ last.op = "none"
  /\ last' = [last EXCEPT
                !.op = "is_short_sizeclass",
                !.ret = is_short_sizeclass(last.table, last.hdr, last.arg)]
  /\ UNCHANGED <<kind, allocator, head, used, meta, outstanding, bigHeader,
                 debug, aborted, walk, fresh, ops, links>>

NextShort == IsShortSizeclass

\* The static predicate alone, over the builds.
SpecShort == InitShort /\ [][NextShort]_vars

\* The same program with init also called on superslabs in use.
NextTransplant ==
  \/ Next
  \/ \E a \in Owners : InitInUse(a)

SpecTransplant == Init /\ [][NextTransplant]_vars

(* ---------------------------------------------------------------------- *)
(* Properties                                                              *)
(* ---------------------------------------------------------------------- *)

OutstandingRegular == outstanding \cap RegularSlots

ShortOutstanding == 0 \in outstanding

FullCount == 2 * (SLAB_COUNT - 1) + 1

RangeOf(seq) == {seq[j] : j \in 1 .. Len(seq)}

\* C1: while the region is a superslab, used is twice the number of regular
\* slots handed out plus one if the short slab is handed out, and lies in
\* 0 .. 2*(SLAB_COUNT-1)+1.
C1_UsedCountsOutstanding ==
  kind = "Super" =>
    /\ used = 2 * Cardinality(OutstandingRegular)
              + (IF ShortOutstanding THEN 1 ELSE 0)
    /\ 0 <= used
    /\ used <= FullCount

\* C1 witness: regular slots and the short slab are handed out and a slab
\* has just been returned.
C1_Witness ==
  /\ kind = "Super"
  /\ last.op = "dealloc_slab"
  /\ ShortOutstanding
  /\ OutstandingRegular # {}

\* C2: the chain from head reaches slot 0 after exactly as many steps as
\* there are free regular slots and not earlier; the slots visited are
\* exactly the regular slots that are not handed out, each once.
C2_FreeListComplete ==
  kind = "Super" =>
    LET k == SLAB_COUNT - 1 - Cardinality(OutstandingRegular)
        chain == FreeChain(head, meta)
    IN /\ WalkFrom(head, meta, k) = 0
       /\ \A j \in 0 .. (k - 1) : WalkFrom(head, meta, j) # 0
       /\ Len(chain) = k
       /\ \A j \in 1 .. k : chain[j] = WalkFrom(head, meta, j - 1)
       /\ RangeOf(chain) = RegularSlots \ outstanding
       /\ \A a, b \in 1 .. k : chain[a] = chain[b] => a = b
       /\ \A i \in RegularSlots \ RangeOf(chain) : i \in outstanding

\* C2 witness: after deallocations the chain is out of index order and some
\* slot is still handed out.
C2_Witness ==
  /\ kind = "Super"
  /\ last.op = "dealloc_slab"
  /\ OutstandingRegular # {}
  /\ LET chain == FreeChain(head, meta)
     IN Len(chain) >= 2 /\ chain[1] > chain[2]

\* C3: a dealloc_slab or dealloc_short_slab call returns StatusChange if
\* get_status after the call differs from get_status before it, and
\* NoStatusChange otherwise.
C3_DeallocReportsStatusChange ==
  [][ last'.op \in {"dealloc_slab", "dealloc_short_slab"} /\ ops' = ops + 1
      => /\ last'.ret \in {"StatusChange", "NoStatusChange"}
         /\ (last'.ret = "StatusChange")
              <=> (get_status(used') # get_status(used)) ]_vars

\* C3 witness: a regular slab was returned to a full superslab, which
\* reported StatusChange.
C3_Witness ==
  /\ last.op = "dealloc_slab"
  /\ last.preUsed = FullCount
  /\ last.ret = "StatusChange"
  /\ used = FullCount - 2

\* The status table of the data model, by used.
StatusTable(u) ==
  CASE u = 0 -> "Empty"
    [] 0 < u /\ u < 2 * (SLAB_COUNT - 1) -> "Available"
    [] u = 2 * (SLAB_COUNT - 1) -> "OnlyShortSlabAvailable"
    [] u = 2 * (SLAB_COUNT - 1) + 1 -> "Full"
    [] OTHER -> "none"

\* C4: the status queries are functions of used that follow the status
\* table, is_almost_full holds exactly when every regular slot is handed
\* out, and a get_status call returns the table's value and leaves head,
\* used and the free chain as they were.
C4_StatusIsFunctionOfUsed ==
  kind = "Super" =>
    /\ get_status(used) = StatusTable(used)
    /\ is_empty(used) <=> (used = 0)
    /\ is_full(used) <=> (used = FullCount)
    /\ is_almost_full(used) <=> (OutstandingRegular = RegularSlots)
    /\ last.op = "get_status" =>
         /\ last.ret = StatusTable(used)
         /\ head = last.preHead
         /\ used = last.preUsed
         /\ FreeChain(head, meta) = last.preChain

\* C4 witness: get_status was called with every regular slot handed out and
\* the short slab free.
C4_Witness ==
  /\ last.op = "get_status"
  /\ last.ret = "OnlyShortSlabAvailable"
  /\ ~ShortOutstanding

\* C5: an alloc_slab followed at once by dealloc_slab of the slab it
\* returned restores head and used and leaves the free chain with the
\* traversal order it had before the alloc_slab.
C5_AllocDeallocRoundTrip ==
  [][ /\ last.op = "alloc_slab"
      /\ last'.op = "dealloc_slab"
      /\ ops' = ops + 1
      /\ last'.arg = last.ret
      => /\ head' = last.preHead
         /\ used' = last.preUsed
         /\ FreeChain(head', meta') = last.preChain ]_vars

\* C5 witness: the pair has run from a state whose chain skipped a slot
\* that is handed out.
C5_Witness ==
  /\ last.op = "dealloc_slab"
  /\ last.follows = "alloc_slab"
  /\ OutstandingRegular # {}
  /\ meta[head].next # 0
  /\ Len(FreeChain(head, meta)) >= 2

\* C6: an alloc_short_slab call that hands out the short slab, and a
\* dealloc_short_slab call, leave head and every regular slot's record as
\* they were.
C6_ShortSlabIndependent ==
  [][ /\ ops' = ops + 1
      /\ \/ last'.op = "dealloc_short_slab"
         \/ last'.op = "alloc_short_slab" /\ BitAnd(used, 1) = 0
      => /\ head' = head
         /\ \A i \in RegularSlots : meta'[i] = meta[i] ]_vars

\* C6 witness: the short slab was handed out while head was not the first
\* regular slot.
C6_Witness ==
  /\ last.op = "alloc_short_slab"
  /\ last.ret = 0
  /\ last.preUsed > 0
  /\ head # 1

\* C7: with the short slab handed out, alloc_short_slab(sizeclass) returns
\* the slot and leaves the state that alloc_slab(sizeclass) would.
C7_ShortFallsBackToAllocSlab ==
  [][ /\ last'.op = "alloc_short_slab"
      /\ ops' = ops + 1
      /\ BitAnd(used, 1) = 1
      => LET r == alloc_slab(head, used, meta, last'.arg)
         IN /\ last'.ret = r.ret
            /\ last'.ret = SlabAddress(head)
            /\ head' = r.head
            /\ used' = used + 2
            /\ meta' = r.meta ]_vars

\* C7 witness: alloc_short_slab ran with the short slab handed out and
\* returned a regular slab.
C7_Witness ==
  /\ last.op = "alloc_short_slab"
  /\ BitAnd(last.preUsed, 1) = 1
  /\ last.ret # 0

\* C8: with head = 1, used = 0 and every next offset 0 the chain visits the
\* regular slots in ascending order and ends at slot 0, and the k-th
\* alloc_slab call on an initialised fresh region returns slot k.
C8_ZeroInitIsValid ==
  /\ (kind = "Super" /\ head = 1 /\ used = 0
        /\ \A i \in Slots : meta[i].next = 0)
     => /\ FreeChain(head, meta) = [j \in 1 .. (SLAB_COUNT - 1) |-> j]
        /\ WalkFrom(head, meta, SLAB_COUNT - 1) = 0
  /\ (fresh >= 1 /\ last.op = "alloc_slab")
     => /\ last.ret = SlabAddress(fresh)
        /\ fresh <= SLAB_COUNT - 1
        /\ OutstandingRegular = 1 .. fresh

\* C8 witness: alloc_slab calls alone have handed out every regular slot of
\* an initialised fresh region.
C8_Witness ==
  /\ fresh = SLAB_COUNT - 1
  /\ last.op = "alloc_slab"
  /\ last.ret = SlabAddress(SLAB_COUNT - 1)

\* C9 as stated: after every init(owner) call the recorded owner is owner
\* and head = 1, whatever the region held before.
C9_InitAlwaysSetsHead ==
  last.op = "init" => (allocator = last.arg /\ head = 1)

\* C9, amended: after every init(owner) call the recorded owner is owner;
\* head = 1 if the region was not a superslab before or the header is at
\* least a page large; otherwise init leaves head, used and the free chain
\* as they were.
C9_InitSetsHeadUnlessSkipped ==
  last.op = "init" =>
    /\ allocator = last.arg
    /\ kind = "Super"
    /\ IF last.preKind # "Super" \/ bigHeader
       THEN head = 1
       ELSE /\ head = last.preHead
            /\ used = last.preUsed
            /\ FreeChain(head, meta) = last.preChain

\* C9 witness: init ran on a region that was already a superslab, all of
\* whose slabs had been freed, and head is not the first regular slot.
C9_Witness ==
  /\ last.op = "init"
  /\ last.preKind = "Super"
  /\ allocator = last.arg
  /\ used = 0
  /\ head # 1

\* The number of steps C10 gives for the debug walk.
HalvedWalkSteps(u) == SLAB_COUNT - ShiftR(u, 1) - 1

\* C10: the debug check of init walks the chain from head for exactly
\* SLAB_COUNT - (used>>1) - 1 steps and aborts exactly when that walk does
\* not end on slot 0.
C10_DebugWalkHalvesUsed ==
  (last.op = "init" /\ walk.ran) =>
    /\ ~walk.wrapped
    /\ walk.count = HalvedWalkSteps(used)
    /\ walk.end = WalkFrom(head, meta, HalvedWalkSteps(used))
    /\ (walk.end # 0) => aborted
    /\ (walk.end = 0 /\ \A i \in Slots \ outstanding : is_unused(meta[i]))
         => ~aborted

\* The methods of the header.
CoreOps ==
  {"init", "get_status", "get_meta", "alloc_slab", "alloc_short_slab",
   "dealloc_slab", "dealloc_short_slab"}

\* C11: no method of the header changes the list links next and prev, and
\* only init changes the recorded owner.
C11_LinksAndOwnerFrame ==
  [][ (ops' = ops + 1 /\ last'.op \in CoreOps)
      => /\ links' = links
         /\ (last'.op # "init" => allocator' = allocator) ]_vars

\* C11 witness: init ran on a superslab that the owner's list code had
\* linked before another superslab, and the link is still there.
C11_Witness ==
  /\ last.op = "init"
  /\ last.preKind = "Super"
  /\ links.next # 0
  /\ allocator = last.arg

\* The slot an allocation call recorded in last handed out.
HandedOut(l) ==
  IF l.op = "alloc_short_slab" /\ BitAnd(l.preUsed, 1) = 0 THEN 0
  ELSE l.preHead

\* C12: for the address an allocation call returned (header + slot index *
\* SLAB_SIZE, or the header itself for the short slab) get_meta returns the
\* record of the slot handed out: the index (address - header) >> SLAB_BITS
\* is that slot's, is below SLAB_COUNT and is unchanged by the truncation
\* to uint8_t.
C12_GetMetaRoundTrip ==
  /\ last.op \in {"alloc_slab", "alloc_short_slab"} =>
       LET slot == HandedOut(last)
           res == ShiftR(last.ret, SLAB_BITS)
       IN /\ last.ret = slot * SLAB_SIZE
          /\ res = slot
          /\ res < SLAB_COUNT
          /\ res = U8(res)
          /\ slab_to_index(last.ret) = slot
          /\ slot \in outstanding
          /\ get_meta(meta, last.ret) = meta[slot]
          /\ get_meta(meta, last.ret).sizeclass = last.arg
          /\ ~is_unused(get_meta(meta, last.ret))
  /\ last.op = "get_meta" =>
       /\ last.ret \in outstanding
       /\ last.ret < SLAB_COUNT
       /\ last.arg = last.ret * SLAB_SIZE

\* C12 witness: alloc_short_slab fell back to the last regular slot, whose
\* address maps back to its index.
C12_Witness ==
  /\ last.op = "alloc_short_slab"
  /\ last.ret = (SLAB_COUNT - 1) * SLAB_SIZE
  /\ slab_to_index(last.ret) = SLAB_COUNT - 1

\* C13: is_short_sizeclass(c) is true only for classes whose largest
\* object is strictly smaller than SLAB_SIZE - sizeof(Superslab), and false
\* for every class whose size is at or above that bound.
C13_ShortSizeclassBelowBound ==
  last.op = "is_short_sizeclass" =>
    /\ last.ret => last.table[last.arg] < SLAB_SIZE - last.hdr
    /\ last.table[last.arg] >= SLAB_SIZE - last.hdr => ~last.ret

\* C13 witness: a class whose objects fit the space exactly is refused,
\* while a smaller class of the same table is let in.
C13_Witness ==
  /\ last.op = "is_short_sizeclass"
  /\ last.table[last.arg] = SLAB_SIZE - last.hdr
  /\ ~last.ret
  /\ \E c \in SizeClasses :
       /\ last.table[c] < SLAB_SIZE - last.hdr
       /\ is_short_sizeclass(last.table, last.hdr, c)

\* C14: for every old head h and every freed regular index i, the offset
\* that dealloc_slab stores for slot i, h - i - 1 in 8-bit unsigned arithmetic
\* reduced mod SLAB_COUNT, satisfies (i + next + 1) mod SLAB_COUNT = h, also
\* when h < i and when h = 0; an alloc_slab right after pops slot i and moves
\* head back to h.  The same is observed on every dealloc_slab that ran.
C14_OffsetWrapAround ==
  /\ \A h \in Slots, i \in RegularSlots :
       LET d == dealloc_slab(h, 2, meta, SlabAddress(i))
           n == d.meta[i].next
           a == alloc_slab(d.head, d.used, d.meta, 0)
       IN /\ n \in Slots
          /\ (i + n + 1) % SLAB_COUNT = h
          /\ d.head = i
          /\ a.ret = SlabAddress(i)
          /\ a.head = h
  /\ last.op = "dealloc_slab" =>
       LET i == slab_to_index(last.arg)
       IN /\ head = i
          /\ (i + meta[i].next + 1) % SLAB_COUNT = last.preHead

\* C14 witness: a dealloc_slab whose old head lies below the freed index, so
\* that the 8-bit subtraction wrapped, over a chain that ends in a link to 0.
C14_Witness ==
  /\ last.op = "dealloc_slab"
  /\ 0 < last.preHead
  /\ last.preHead < slab_to_index(last.arg)
  /\ U8(last.preHead - slab_to_index(last.arg) - 1) >= SLAB_COUNT
  /\ LET chain == FreeChain(head, meta)
         e == chain[Len(chain)]
     IN (e + meta[e].next + 1) % SLAB_COUNT = 0

\* C15: no double allocation.  alloc_slab on a superslab that is not almost
\* full returns a regular slot that is not outstanding; alloc_short_slab on a
\* superslab that is not full returns slot 0 when the short slab is free and
\* otherwise a regular slot that is not outstanding.  So the set of
\* outstanding slots grows by exactly the slot returned.
C15_NoDoubleAllocation ==
  [][ (ops' = ops + 1 /\ last'.op \in {"alloc_slab", "alloc_short_slab"})
      => LET s == slab_to_index(last'.ret)
         IN /\ s \in Slots
            /\ s \notin outstanding
            /\ outstanding' = outstanding \cup {s}
            /\ Cardinality(outstanding') = Cardinality(outstanding) + 1
            /\ last'.op = "alloc_slab" => s \in RegularSlots
            /\ last'.op = "alloc_short_slab" =>
                 IF 0 \notin outstanding THEN s = 0 ELSE s \in RegularSlots
    ]_vars

\* C15 witness: an alloc_slab right after a dealloc_slab hands the freed slot
\* out again while the short slab and another regular slab are outstanding.
C15_Witness ==
  /\ last.op = "alloc_slab"
  /\ last.follows = "dealloc_slab"
  /\ 0 \in outstanding
  /\ Cardinality(outstanding) >= 3

\* C16: in every state of a superslab, head = 0 exactly when all
\* SLAB_COUNT - 1 regular slots are outstanding, which is when is_almost_full
\* is true; whenever a regular slot is free, head is the index of a free
\* regular slot.
C16_HeadZeroIffAlmostFull ==
  kind = "Super" =>
    /\ head = 0 <=> OutstandingRegular = RegularSlots
    /\ head = 0 <=> is_almost_full(used)
    /\ OutstandingRegular # RegularSlots =>
         head \in RegularSlots \ OutstandingRegular

\* C16 witness: the last free regular slot is handed out again after a
\* dealloc_slab, and head is back at 0.
C16_Witness ==
  /\ kind = "Super"
  /\ last.op = "alloc_slab"
  /\ last.follows = "dealloc_slab"
  /\ head = 0
  /\ is_almost_full(used)
  /\ OutstandingRegular = RegularSlots

\* C17: LIFO reuse.  The alloc_slab that comes after dealloc_slab(s) of an
\* outstanding regular slab s returns s again, and leaves head, used and the
\* order of the free chain as they were before the dealloc_slab.
C17_LifoReuse ==
  [][ /\ last.op = "dealloc_slab"
      /\ last'.op = "alloc_slab"
      /\ ops' = ops + 1
      => /\ last'.ret = last.arg
         /\ slab_to_index(last'.ret) \in outstanding'
         /\ head' = last.preHead
         /\ used' = last.preUsed
         /\ FreeChain(head', meta') = last.preChain
    ]_vars

\* C17 witness: a slab below another outstanding one was freed and handed
\* out again, with free slots left on the chain.
C17_Witness ==
  /\ last.op = "alloc_slab"
  /\ last.follows = "dealloc_slab"
  /\ head # 0
  /\ FreeChain(head, meta) # <<>>
  /\ \E j \in OutstandingRegular : j > slab_to_index(last.ret)

\* The slot that an alloc call handed out keeps the size class it was given
\* for as long as it is outstanding.
ClassKeptWhileOutstanding ==
  /\ (ops' = ops + 1 /\ last'.op \in {"alloc_slab", "alloc_short_slab"})
       => meta'[slab_to_index(last'.ret)].sizeclass = last'.arg
  /\ \A j \in outstanding \cap outstanding' :
       meta'[j].sizeclass = meta[j].sizeclass

\* C18 as stated: every outstanding slot stores the size class passed to the
\* call that handed it out, and every slot that is not outstanding, regular
\* or short, has stored size class 0.
C18_SizeClassBookkeeping ==
  [][ kind' = "Super"
      => /\ ClassKeptWhileOutstanding
         /\ \A j \in Slots \ outstanding' : meta'[j].sizeclass = 0 ]_vars

\* C18 amended: every outstanding slot stores the size class passed to the
\* call that handed it out, and every regular slot that is not outstanding
\* has stored size class 0.  dealloc_short_slab leaves the record of slot 0
\* alone: a free short slab still stores the size class of its last use,
\* until alloc_short_slab overwrites it or an init resets the header.
C18_SizeClassBookkeepingRegular ==
  [][ kind' = "Super"
      => /\ ClassKeptWhileOutstanding
         /\ \A j \in RegularSlots \ outstanding' : meta'[j].sizeclass = 0
         /\ (ops' = ops + 1 /\ last'.op = "dealloc_short_slab")
              => /\ 0 \notin outstanding'
                 /\ meta'[0].sizeclass = meta[0].sizeclass
         /\ (0 \notin outstanding \cup outstanding' /\ last'.op # "init")
              => meta'[0].sizeclass = meta[0].sizeclass ]_vars

\* C18 witness: the short slab is free and still stores a size class other
\* than 0, next to regular slots both free and outstanding.
C18_Witness ==
  /\ kind = "Super"
  /\ last.op = "dealloc_short_slab"
  /\ 0 \notin outstanding
  /\ meta[0].sizeclass # 0
  /\ OutstandingRegular # {}
  /\ \E j \in OutstandingRegular : meta[j].sizeclass # 0
  /\ FreeChain(head, meta) # <<>>

====
